---------------------------- MODULE Spec2Model ----------------------------
(***************************************************************************)
(* Model of python-helper: CodeAnalyzer (src/python-helper/src/analyzer.py)*)
(* and BugFixer (src/python-helper/src/fixer.py).                          *)
(*                                                                         *)
(* Text is held as the list of its lines (code.split('\n')); a line is a   *)
(* record of what the fixer reads from it: whether and how the pattern     *)
(* (def|class)\s+(\w+) matches it, and its leading whitespace.  The fields *)
(* orig and by are history fields: orig is the 1-based position the line   *)
(* had in the original text (0 for an inserted line) and by is the         *)
(* identity of the Issue an inserted line was made for (0 otherwise).      *)
(* An Issue carries the field id, standing for the identity of the Python  *)
(* object: its position in the list handed to fix_code, or the tree node   *)
(* that triggered it in analyze_code.                                      *)
(***************************************************************************)
EXTENDS Integers, Sequences, FiniteSets, TLC

\* ------------------------------------------------------------------ bounds
MaxLines == 2
MaxIssues == 2
MaxDefs == 3
MaxNodes == 3
MaxCalls == 2
RecursionLimit == 2
MaxInstances == 2
MaxLineLen == 6
MaxMaxLength == 4

\* ------------------------------------------------------------- lists (Python)
Reverse(s) == [i \in 1..Len(s) |-> s[Len(s) + 1 - i]]

\* An assignment lines[i] = x in place of the insert: the line that stood at
\* the index is lost.
ListInsertOver(s, i, x) ==
  LET n == Len(s)
      j == IF i < 0 THEN i + n ELSE i
      k == IF j < 0 THEN 0 ELSE IF j > n THEN n ELSE j
  IN SubSeq(s, 1, k) \o <<x>> \o SubSeq(s, k + 2, n)

\* list.insert(i, x) with a 0-based index i: a negative index counts from the
\* end, and an index outside the list is clamped to its ends.
ListInsert(s, i, x) ==
  LET n == Len(s)
      j == IF i < 0 THEN i + n ELSE i
      k == IF j < 0 THEN 0 ELSE IF j > n THEN n ELSE j
  IN SubSeq(s, 1, k) \o <<x>> \o SubSeq(s, k + 1, n)

\* s[i] with a 0-based index i: defined for -len <= i < len, IndexError otherwise.
IndexInRange(s, i) == (0 - Len(s)) <= i /\ i < Len(s)
ListGet(s, i) == IF i < 0 THEN s[i + Len(s) + 1] ELSE s[i + 1]

\* ------------------------------------------------------------------ issues
CodeIssue(line, column, message, severity, code, id) ==
  [line |-> line, column |-> column, message |-> message,
   severity |-> severity, code |-> code, id |-> id]

\* ------------------------------------------------------------------- lines
DefLine(indent, name, orig) ==
  [kind |-> "def", indent |-> indent, name |-> name, orig |-> orig, by |-> 0]
ClassLine(indent, name, orig) ==
  [kind |-> "class", indent |-> indent, name |-> name, orig |-> orig, by |-> 0]
OtherLine(orig) ==
  [kind |-> "other", indent |-> 0, name |-> "", orig |-> orig, by |-> 0]
\* The f-string of fixer.py:112/114: inner_indent spaces, three quotes, the
\* name, a blank, the fixed words for a function or for a class.
DocLine(inner_indent, obj_type, obj_name, by) ==
  [kind |-> IF obj_type = "def" THEN "docdef" ELSE "docclass",
   indent |-> inner_indent, name |-> obj_name, orig |-> 0, by |-> by]

\* re.search(r'(def|class)\s+(\w+)', def_line): the groups, or ok = FALSE.
\* A generated docstring line reads  """<name> <words>."""  and so matches
\* when <name> ends in "def" or "class": the blank and the words that follow
\* are the \s+ and the (\w+).
NameTail(name) ==
  IF name = "undef" THEN "def" ELSE IF name = "subclass" THEN "class" ELSE "none"
DocWords(kind) == IF kind = "docdef" THEN "FunctionDocWords" ELSE "ClassDocWords"
Search(def_line) ==
  CASE def_line.kind \in {"def", "class"} ->
         [ok |-> TRUE, obj_type |-> def_line.kind, obj_name |-> def_line.name]
    [] def_line.kind \in {"docdef", "docclass"} /\ NameTail(def_line.name) # "none" ->
         [ok |-> TRUE, obj_type |-> NameTail(def_line.name),
          obj_name |-> DocWords(def_line.kind)]
    [] OTHER -> [ok |-> FALSE, obj_type |-> "", obj_name |-> ""]

\* len(def_line) - len(def_line.lstrip())
LeadingWhitespace(def_line) == def_line.indent
IndentUnit == 4


\* ------------------------------------------------------------------- state
VARIABLES
  code,           \* fix_code: the argument code, as its lines
  issues,         \* fix_code: the argument issues
  fpc,            \* fix_code: "idle", "loop", "returned" or "raised"
  lines,          \* fix_code: the local lines
  sorted_issues,  \* fix_code: the local sorted_issues
  processed,      \* history: the Issues the loop has taken, in order
  fixes_applied,  \* BugFixer.fixes_applied
  fixed_code,     \* fix_code: the returned text, as its lines
  tree,           \* analyze_code: what ast.parse(code) gives when it succeeds
  syntax_error,   \* analyze_code: the SyntaxError ast.parse(code) raises, if any
  apc,            \* analyze_code: "input" before the call, "returned" after
  self_issues,    \* CodeAnalyzer.issues
  returned_issues,\* analyze_code: the list returned
  other_error,    \* analyze_code: an exception of ast.parse that is no SyntaxError
  heap,           \* the list objects made for self.issues, by identity
  self_ref,       \* the identity of the list self.issues is bound to
  returned_refs,  \* history: the identities of the lists returned, in call order
  calls,          \* the calls made so far on the instance (analyze_code, fix_code)
  stats,          \* the dictionary get_statistics returned last, if any
  tpc,            \* per thread: "idle", "walk" or "returned"
  ttree,          \* per thread: the tree of the thread's own input
  tpos,           \* per thread: the position of _check_ast in its walk
  tret,           \* per thread: the identity of the list returned
  deque,          \* _check_ast: the deque of ast.walk, nodes still to visit
  fs,             \* the file system: per path <<>> or <<content>>
  fout,           \* the outcome of the last file-scoped call, if any
  instances,      \* the components constructed so far
  cout,           \* the outcome of the last constructor call, if any
  max_length,     \* fix_line_length: the argument max_length
  summary         \* the dictionary get_fix_summary returned last, if any

fixerVars == <<code, issues, fpc, lines, sorted_issues, processed,
               fixes_applied, fixed_code>>
analyzerVars == <<tree, syntax_error, apc, self_issues, returned_issues>>
callVars == <<other_error, heap, self_ref, returned_refs, calls, stats>>
threadVars == <<tpc, ttree, tpos, tret>>
walkVars == <<deque>>
fileVars == <<fs, fout>>
ctorVars == <<instances, cout>>
lengthVars == <<max_length>>
summaryVars == <<summary>>
entryVars == <<walkVars, fileVars, ctorVars, lengthVars, summaryVars>>
vars == <<fixerVars, analyzerVars, callVars, threadVars, entryVars>>

\* ------------------------------------------------------ BugFixer.fix_code
\* list.sort: a stable ascending sort by key, here by insertion; x goes
\* behind every element whose key is not larger.
RECURSIVE InsertByLine(_, _)
InsertByLine(s, x) ==
  IF s = <<>> THEN <<x>>
  ELSE IF Head(s).line <= x.line THEN <<Head(s)>> \o InsertByLine(Tail(s), x)
  ELSE <<x>> \o s

RECURSIVE StableSortByLine(_)
StableSortByLine(s) ==
  IF s = <<>> THEN <<>>
  ELSE InsertByLine(StableSortByLine(SubSeq(s, 1, Len(s) - 1)), s[Len(s)])

\* A sort that is descending but turns the order of equal keys around.
SortedUnstable(s) == Reverse(StableSortByLine(s))

\* sorted(issues, key=lambda x: x.line, reverse=True): CPython reverses the
\* list, sorts it stably and reverses it again, which keeps equal keys in
\* their original order.
Sorted(s) == Reverse(StableSortByLine(Reverse(s)))

StartsWithI000(c) == c \in {"I0001", "I0002"}

Fix(issue, obj_name) == [line |-> issue.line, type |-> "docstring", name |-> obj_name]

\* _add_docstring with the insertion one line too far down.
AddDocstringOffByOne(ls, fixes, issue) ==
  LET line_idx == issue.line - 1 IN
  IF line_idx >= Len(ls) THEN [exc |-> FALSE, lines |-> ls, fixes |-> fixes]
  ELSE IF ~IndexInRange(ls, line_idx) THEN [exc |-> TRUE, lines |-> ls, fixes |-> fixes]
  ELSE LET def_line == ListGet(ls, line_idx)
           m == Search(def_line)
       IN IF ~m.ok THEN [exc |-> FALSE, lines |-> ls, fixes |-> fixes]
          ELSE [exc |-> FALSE,
                lines |-> ListInsert(ls, line_idx + 2,
                            DocLine(LeadingWhitespace(def_line) + IndentUnit,
                                    m.obj_type, m.obj_name, issue.id)),
                fixes |-> Append(fixes, Fix(issue, m.obj_name))]

\* _add_docstring without the return for a line the pattern does not match.
AddDocstringUnmatched(ls, fixes, issue) ==
  LET line_idx == issue.line - 1 IN
  IF line_idx >= Len(ls) THEN [exc |-> FALSE, lines |-> ls, fixes |-> fixes]
  ELSE IF ~IndexInRange(ls, line_idx) THEN [exc |-> TRUE, lines |-> ls, fixes |-> fixes]
  ELSE LET def_line == ListGet(ls, line_idx)
           m == Search(def_line)
       IN [exc |-> FALSE,
           lines |-> ListInsert(ls, line_idx + 1,
                       DocLine(LeadingWhitespace(def_line) + IndentUnit,
                               "def", m.obj_name, issue.id)),
           fixes |-> Append(fixes, Fix(issue, m.obj_name))]

\* BugFixer._add_docstring(lines, issue): exc is TRUE when lines[line_idx]
\* raises IndexError; otherwise lines and fixes are the list returned and
\* self.fixes_applied afterwards.
AddDocstring(ls, fixes, issue) ==
  LET line_idx == issue.line - 1 IN
  IF line_idx >= Len(ls) THEN [exc |-> FALSE, lines |-> ls, fixes |-> fixes]
  ELSE IF ~IndexInRange(ls, line_idx) THEN [exc |-> TRUE, lines |-> ls, fixes |-> fixes]
  ELSE LET def_line == ListGet(ls, line_idx)
           indent == LeadingWhitespace(def_line)
           inner_indent == indent + IndentUnit
           m == Search(def_line)
       IN IF ~m.ok THEN [exc |-> FALSE, lines |-> ls, fixes |-> fixes]
          ELSE [exc |-> FALSE,
                lines |-> ListInsert(ls, line_idx + 1,
                            DocLine(inner_indent, m.obj_type, m.obj_name, issue.id)),
                fixes |-> Append(fixes, Fix(issue, m.obj_name))]

\* The arguments a caller may pass.
LineChoices(pos) == {DefLine(0, "f", pos), ClassLine(4, "undef", pos), OtherLine(pos)}
IssueLines == (0 - MaxLines)..(MaxLines + 1)
IssueCodes == {"W0002", "I0001", "E0001"}
SeverityOf(c) ==
  IF c = "E0001" THEN "error" ELSE IF c \in {"W0001", "W0002"} THEN "warning" ELSE "info"

\* The caller writes one more line of the text to be fixed.
AddLine ==
  /\ fpc = "idle"
  /\ Len(code) < MaxLines
  /\ \E l \in LineChoices(Len(code) + 1) : code' = Append(code, l)
  /\ UNCHANGED <<issues, fpc, lines, sorted_issues, processed, fixes_applied, fixed_code>>
  /\ UNCHANGED <<analyzerVars, callVars, threadVars, entryVars>>

\* The caller puts one more Issue on the list to be fixed.
AddIssue ==
  /\ fpc = "idle"
  /\ Len(issues) < MaxIssues
  /\ \E ln \in IssueLines, c \in IssueCodes :
       issues' = Append(issues, CodeIssue(ln, 0, <<"given", "">>, SeverityOf(c), c, Len(issues) + 1))
  /\ UNCHANGED <<code, fpc, lines, sorted_issues, processed, fixes_applied, fixed_code>>
  /\ UNCHANGED <<analyzerVars, callVars, threadVars, entryVars>>

\* fix_code keeping the records of the call before.
ResetFixesKept(fixes) == fixes

\* fix_code, line 68: self.fixes_applied = []
ResetFixes(fixes) == <<>>

\* fix_code, lines 68-72: up to the loop.
FixCodeStart ==
  /\ fpc = "idle"
  /\ fpc' = "loop"
  /\ fixes_applied' = ResetFixes(fixes_applied)
  /\ lines' = code
  /\ sorted_issues' = Sorted(issues)
  /\ processed' = <<>>
  /\ UNCHANGED <<code, issues, fixed_code>>
  /\ UNCHANGED <<analyzerVars, callVars, threadVars, entryVars>>

\* The loop body with the type-hint branch patching the text as well.
FixOneEveryBranch(ls, fixes, issue) ==
  IF issue.code = "W0002" \/ StartsWithI000(issue.code)
  THEN AddDocstring(ls, fixes, issue)
  ELSE [exc |-> FALSE, lines |-> ls, fixes |-> fixes]

\* fix_code, lines 75-79: the body of the loop for one Issue.
FixOne(ls, fixes, issue) ==
  IF issue.code = "W0002" THEN AddDocstring(ls, fixes, issue)
  ELSE IF StartsWithI000(issue.code)
       THEN [exc |-> FALSE, lines |-> ls, fixes |-> fixes]  \* pass
  ELSE [exc |-> FALSE, lines |-> ls, fixes |-> fixes]       \* no branch

\* fix_code, lines 74-79: one turn of the loop.
FixCodeStep ==
  /\ fpc = "loop"
  /\ Len(processed) < Len(sorted_issues)
  /\ LET issue == sorted_issues[Len(processed) + 1]
         r == FixOne(lines, fixes_applied, issue)
     IN /\ processed' = Append(processed, issue)
        /\ lines' = r.lines
        /\ fixes_applied' = r.fixes
        /\ fpc' = IF r.exc THEN "raised" ELSE "loop"
  /\ UNCHANGED <<code, issues, sorted_issues, fixed_code>>
  /\ UNCHANGED <<analyzerVars, callVars, threadVars, entryVars>>

\* fix_code, line 81.
FixCodeReturn ==
  /\ fpc = "loop"
  /\ Len(processed) = Len(sorted_issues)
  /\ fpc' = "returned"
  /\ fixed_code' = lines
  /\ UNCHANGED <<code, issues, lines, sorted_issues, processed, fixes_applied>>
  /\ UNCHANGED <<analyzerVars, callVars, threadVars, entryVars>>

\* ------------------------------------------------------------ syntax trees
\* ast.parse's tree is a list of nodes; node 1 is the Module and every other
\* node names its parent, which stands before it.  The children of a node
\* are in the order of the list.  A node holds what the analyzer reads:
\*   kind        the node class
\*   name        node.name of a definition
\*   first_stmt  the first statement of a definition's body: "str" a string
\*               constant with text, "blank" a string constant that
\*               inspect.cleandoc leaves empty, "none" anything else
\*   posonlyargs, args, kwonlyargs   node.args.<the same>, each argument
\*               with its name (arg) and whether it has an annotation
\*   returns     whether node.returns is set
\*   values      len(node.values) of a BoolOp
Arg(name, annotated) == [arg |-> name, annotated |-> annotated]

Node(kind, parent, name, first_stmt, posonlyargs, args, kwonlyargs, returns, values) ==
  [kind |-> kind, parent |-> parent, name |-> name, first_stmt |-> first_stmt,
   posonlyargs |-> posonlyargs, args |-> args, kwonlyargs |-> kwonlyargs,
   returns |-> returns, values |-> values]

Plain(kind, parent) == Node(kind, parent, "", "none", <<>>, <<>>, <<>>, FALSE, 0)
BoolOp(parent, values) == Node("BoolOp", parent, "", "none", <<>>, <<>>, <<>>, FALSE, values)

ComplexityThreshold == 10

\* ast.iter_child_nodes(node)
Children(t, n) ==
  LET RECURSIVE From(_)
      From(i) == IF i > Len(t) THEN <<>>
                 ELSE IF t[i].parent = n THEN <<i>> \o From(i + 1) ELSE From(i + 1)
  IN From(1)

\* ast.walk(node): breadth first, a deque of nodes to visit, the children of
\* each node visited put at its end.
WalkTodo(t, todo) ==
  LET RECURSIVE Go(_)
      Go(td) == IF td = <<>> THEN <<>>
                ELSE <<Head(td)>> \o Go(Tail(td) \o Children(t, Head(td)))
  IN Go(todo)
Walk(t, n) == WalkTodo(t, <<n>>)

\* The source order of the nodes (depth first, a node before its children).
Preorder(t, n) ==
  LET RECURSIVE Pre(_)
      RECURSIVE Each(_)
      Pre(m) == <<m>> \o Each(Children(t, m))
      Each(cs) == IF cs = <<>> THEN <<>> ELSE Pre(Head(cs)) \o Each(Tail(cs))
  IN Pre(n)

Depth(t, n) ==
  LET RECURSIVE D(_)
      D(m) == IF t[m].parent = 0 THEN 0 ELSE 1 + D(t[m].parent)
  IN D(n)

\* node.lineno and node.col_offset as the parser sets them for a text with
\* one node to the line and four blanks to the level: the nodes below the
\* Module are numbered from 1 in source order.
Lineno(t, n) ==
  LET pre == Preorder(t, 1)
  IN (CHOOSE k \in 1..Len(pre) : pre[k] = n) - 1
ColOffset(t, n) == 4 * (Depth(t, n) - 1)

\* ---------------------------------------------------------- CodeAnalyzer
\* A complexity count that takes a BoolOp for the number of its operands.
CalculateComplexityPerOperand(t, n) ==
  LET w == Walk(t, n)
      RECURSIVE Loop(_, _)
      Loop(i, complexity) ==
        IF i > Len(w) THEN complexity
        ELSE IF t[w[i]].kind \in {"If", "While", "For", "ExceptHandler"}
             THEN Loop(i + 1, complexity + 1)
        ELSE IF t[w[i]].kind = "BoolOp"
             THEN Loop(i + 1, complexity + t[w[i]].values)
        ELSE Loop(i + 1, complexity)
  IN Loop(1, 1)

\* CodeAnalyzer._calculate_complexity(node)
CalculateComplexity(t, n) ==
  LET w == Walk(t, n)
      RECURSIVE Loop(_, _)
      Loop(i, complexity) ==
        IF i > Len(w) THEN complexity
        ELSE IF t[w[i]].kind \in {"If", "While", "For", "ExceptHandler"}
             THEN Loop(i + 1, complexity + 1)
        ELSE IF t[w[i]].kind = "BoolOp"
             THEN Loop(i + 1, complexity + (t[w[i]].values - 1))
        ELSE Loop(i + 1, complexity)
  IN Loop(1, 1)

\* A complexity check that also reports a score equal to the threshold.
CheckFunctionComplexityAtThreshold(t, n) ==
  IF t[n].kind = "FunctionDef" /\ CalculateComplexity(t, n) >= ComplexityThreshold
  THEN <<CodeIssue(Lineno(t, n), ColOffset(t, n),
                   <<"complexity", t[n].name>>, "warning", "W0001", n)>>
  ELSE <<>>

\* CodeAnalyzer._check_function_complexity(node): the Issues it appends.
CheckFunctionComplexity(t, n) ==
  IF t[n].kind = "FunctionDef"
  THEN LET complexity == CalculateComplexity(t, n)
       IN IF complexity > ComplexityThreshold
          THEN <<CodeIssue(Lineno(t, n), ColOffset(t, n),
                           <<"complexity", t[n].name>>, "warning", "W0001", n)>>
          ELSE <<>>
  ELSE <<>>

\* ast.get_docstring(node): <<>> for None, else the cleaned text, of which
\* only whether it is empty is kept.
GetDocstring(node) ==
  IF node.first_stmt = "none" THEN <<>>
  ELSE IF node.first_stmt = "blank" THEN <<"">> ELSE <<"text">>

\* Python's not: None and the empty string are false.
Not(docstring) == docstring = <<>> \/ docstring = <<"">>

\* _check_missing_docstrings giving every Issue column 0.
CheckMissingDocstringsAtLineStart(t, n) ==
  IF t[n].kind \in {"FunctionDef", "ClassDef"}
  THEN IF Not(GetDocstring(t[n]))
       THEN <<CodeIssue(Lineno(t, n), 0,
                        <<"docstring", t[n].name>>, "warning", "W0002", n)>>
       ELSE <<>>
  ELSE <<>>

\* CodeAnalyzer._check_missing_docstrings(node): the Issues it appends.
CheckMissingDocstrings(t, n) ==
  IF t[n].kind \in {"FunctionDef", "ClassDef"}
  THEN IF Not(GetDocstring(t[n]))
       THEN <<CodeIssue(Lineno(t, n), ColOffset(t, n),
                        <<"docstring", t[n].name>>, "warning", "W0002", n)>>
       ELSE <<>>
  ELSE <<>>

\* CodeAnalyzer._check_missing_type_hints(node): the Issues it appends.
CheckMissingTypeHints(t, n) ==
  IF t[n].kind = "FunctionDef"
  THEN LET a == t[n].args
           RECURSIVE ForArg(_)
           ForArg(i) ==
             IF i > Len(a) THEN <<>>
             ELSE IF ~a[i].annotated /\ a[i].arg # "self"
                  THEN <<CodeIssue(Lineno(t, n), ColOffset(t, n),
                                   <<"parameter", a[i].arg>>, "info", "I0001", n)>>
                       \o ForArg(i + 1)
                  ELSE ForArg(i + 1)
           ret == IF ~t[n].returns
                  THEN <<CodeIssue(Lineno(t, n), ColOffset(t, n),
                                   <<"return", t[n].name>>, "info", "I0002", n)>>
                  ELSE <<>>
       IN ForArg(1) \o ret
  ELSE <<>>

\* _check_ast taking the nodes in source order, a node before its children.
CheckAstInSourceOrder(t) ==
  LET w == Preorder(t, 1)
      RECURSIVE ForNode(_)
      ForNode(i) ==
        IF i > Len(w) THEN <<>>
        ELSE CheckFunctionComplexity(t, w[i]) \o CheckMissingDocstrings(t, w[i])
             \o CheckMissingTypeHints(t, w[i]) \o ForNode(i + 1)
  IN ForNode(1)

\* CodeAnalyzer._check_ast(tree): the Issues appended over the whole walk.
CheckAst(t) ==
  LET w == Walk(t, 1)
      RECURSIVE ForNode(_)
      ForNode(i) ==
        IF i > Len(w) THEN <<>>
        ELSE CheckFunctionComplexity(t, w[i]) \o CheckMissingDocstrings(t, w[i])
             \o CheckMissingTypeHints(t, w[i]) \o ForNode(i + 1)
  IN ForNode(1)

\* e.lineno or 0, e.offset or 0: an attribute is <<>> for None.
OrZero(x) == IF x = <<>> THEN 0 ELSE x[1]

\* The except branch making a warning of the SyntaxError.
SyntaxIssueAsWarning(e) ==
  CodeIssue(OrZero(e.lineno), OrZero(e.offset), <<"syntax", "">>, "warning", "E0001", 0)

\* The except branch of analyze_code: the one Issue made from the SyntaxError.
SyntaxIssue(e) ==
  CodeIssue(OrZero(e.lineno), OrZero(e.offset), <<"syntax", "">>, "error", "E0001", 0)


\* What the parser may hand over: definitions ...
FunctionDef(parent, first_stmt, posonlyargs, args, kwonlyargs, returns) ==
  Node("FunctionDef", parent, "f", first_stmt, posonlyargs, args, kwonlyargs, returns, 0)
AsyncFunctionDef(parent, first_stmt, posonlyargs, args, kwonlyargs, returns) ==
  Node("AsyncFunctionDef", parent, "f", first_stmt, posonlyargs, args, kwonlyargs, returns, 0)
ClassDef(parent, first_stmt) ==
  Node("ClassDef", parent, "A", first_stmt, <<>>, <<>>, <<>>, FALSE, 0)

DefChoices(parent) ==
  { \* def f(x, y): return x + y
    FunctionDef(parent, "none", <<>>, <<Arg("x", FALSE), Arg("y", FALSE)>>, <<>>, FALSE),
    \* def f(self, x: int) -> int: """text"""
    FunctionDef(parent, "str", <<>>, <<Arg("self", FALSE), Arg("x", TRUE)>>, <<>>, TRUE),
    \* def f(cls, x) -> int: """text"""
    FunctionDef(parent, "str", <<>>, <<Arg("cls", FALSE), Arg("x", FALSE)>>, <<>>, TRUE),
    \* def f(x: int, self): """text"""
    FunctionDef(parent, "str", <<>>, <<Arg("x", TRUE), Arg("self", FALSE)>>, <<>>, FALSE),
    \* def f(a, /, *, k) -> int: """ """
    FunctionDef(parent, "blank", <<Arg("a", FALSE)>>, <<>>, <<Arg("k", FALSE)>>, TRUE),
    \* async def f(x): return x
    AsyncFunctionDef(parent, "none", <<>>, <<Arg("x", FALSE)>>, <<>>, FALSE),
    ClassDef(parent, "none"),
    ClassDef(parent, "str"),
    Plain("Other", parent) }

\* ... and control flow inside a function that has a docstring, no
\* parameters and a return annotation.
FlowChoices(parent) ==
  { FunctionDef(parent, "str", <<>>, <<>>, <<>>, TRUE),
    Plain("If", parent), Plain("While", parent), Plain("For", parent),
    Plain("ExceptHandler", parent),
    BoolOp(parent, 2), BoolOp(parent, ComplexityThreshold),
    Plain("Other", parent) }

\* A BoolOp holds expressions only.
MayHold(parentNode, node) ==
  parentNode.kind = "BoolOp" => node.kind \in {"BoolOp", "Other"}

OptionalLines == {<<>>, <<0>>, <<2>>}
OptionalOffsets == {<<>>, <<5>>}

\* ast.parse gives a tree with one more definition in it.
ParserAddsDefinition ==
  /\ apc = "input"
  /\ syntax_error = <<>>
  /\ Len(tree) <= MaxDefs
  /\ \E parent \in 1..Len(tree) :
       \E node \in DefChoices(parent) :
         /\ MayHold(tree[parent], node)
         /\ tree' = Append(tree, node)
  /\ UNCHANGED <<syntax_error, apc, self_issues, returned_issues>>
  /\ UNCHANGED <<fixerVars, callVars, threadVars, entryVars>>

\* ast.parse gives a tree with one more control-flow node in it.
ParserAddsControlFlow ==
  /\ apc = "input"
  /\ syntax_error = <<>>
  /\ Len(tree) <= MaxNodes
  /\ \E parent \in 1..Len(tree) :
       \E node \in FlowChoices(parent) :
         /\ MayHold(tree[parent], node)
         /\ tree' = Append(tree, node)
  /\ UNCHANGED <<syntax_error, apc, self_issues, returned_issues>>
  /\ UNCHANGED <<fixerVars, callVars, threadVars, entryVars>>

\* ast.parse raises SyntaxError for the text; tree is what the text would
\* have held and is not seen by analyze_code.
ParserFails ==
  /\ apc = "input"
  /\ syntax_error = <<>>
  /\ other_error = <<>>
  /\ \E lineno \in OptionalLines, offset \in OptionalOffsets :
       syntax_error' = <<[lineno |-> lineno, offset |-> offset]>>
  /\ UNCHANGED <<tree, apc, self_issues, returned_issues>>
  /\ UNCHANGED <<fixerVars, callVars, threadVars, entryVars>>

\* analyze_code with the except branch adding to what the rules found.
AnalyzeCodeResultKeepsGoing(t, e) ==
  IF e = <<>> THEN CheckAst(t) ELSE Append(CheckAst(t), SyntaxIssue(e[1]))

\* CodeAnalyzer.analyze_code(code): self.issues when it returns.
AnalyzeCodeResult(t, e) ==
  IF e = <<>> THEN CheckAst(t) ELSE <<SyntaxIssue(e[1])>>

\* self.issues.clear() in place of a new list.
ResetIssuesInPlace(h, r) == [heap |-> [h EXCEPT ![r] = <<>>], ref |-> r]

\* No reset: the list of the call before is kept and added to.
ResetIssuesKept(h, r) == [heap |-> h, ref |-> r]

\* analyze_code, line 87: self.issues = [] makes a new list object and binds
\* self.issues to it; the list bound before is left as it is.
ResetIssues(h, r) == [heap |-> Append(h, <<>>), ref |-> Len(h) + 1]

\* analyze_code as one step: the reset, the parse, the walk or the except
\* branch, and the return of self.issues; an exception of ast.parse other
\* than SyntaxError leaves through the try statement.
AnalyzeCode ==
  /\ apc = "input"
  /\ calls' = calls + 1
  /\ LET r == ResetIssues(heap, self_ref) IN
     IF other_error # <<>>
     THEN /\ apc' = "raised"
          /\ heap' = r.heap
          /\ self_ref' = r.ref
          /\ self_issues' = r.heap[r.ref]
          /\ UNCHANGED <<returned_issues, returned_refs>>
     ELSE LET h == [r.heap EXCEPT ![r.ref] = @ \o AnalyzeCodeResult(tree, syntax_error)]
          IN /\ apc' = "returned"
             /\ heap' = h
             /\ self_ref' = r.ref
             /\ self_issues' = h[r.ref]
             /\ returned_issues' = h[r.ref]
             /\ returned_refs' = Append(returned_refs, r.ref)
  /\ UNCHANGED <<tree, syntax_error, other_error, stats>>
  /\ UNCHANGED <<fixerVars, threadVars, entryVars>>

\* ------------------------------------------------------- specifications
InitFixerVars ==
  /\ issues = <<>>
  /\ fpc = "idle"
  /\ lines = <<>>
  /\ sorted_issues = <<>>
  /\ processed = <<>>
  /\ fixes_applied = <<>>
  /\ fixed_code = <<>>

Threads == {1, 2}

Paths == {"a.py", "b.py"}

InitEntryVars ==
  /\ deque = <<>>
  /\ fs = [p \in Paths |-> <<>>]
  /\ fout = <<>>
  /\ instances = <<>>
  /\ cout = <<>>
  /\ max_length = 0
  /\ summary = <<>>

InitAnalyzerVars ==
  /\ tree = <<Plain("Module", 0)>>
  /\ syntax_error = <<>>
  /\ apc = "input"
  /\ self_issues = <<>>
  /\ returned_issues = <<>>
  /\ other_error = <<>>
  /\ heap = << <<>> >>
  /\ self_ref = 1
  /\ returned_refs = <<>>
  /\ calls = 0
  /\ stats = <<>>
  /\ tpc = [t \in Threads |-> "idle"]
  /\ ttree = [t \in Threads |-> <<Plain("Module", 0)>>]
  /\ tpos = [t \in Threads |-> 0]
  /\ tret = [t \in Threads |-> 0]
  /\ InitEntryVars

Init ==
  /\ code \in {<<l>> : l \in LineChoices(1)}
  /\ InitFixerVars
  /\ InitAnalyzerVars

InitAnalyzer ==
  /\ code = <<OtherLine(1)>>
  /\ InitFixerVars
  /\ InitAnalyzerVars

NextFixer == AddLine \/ AddIssue \/ FixCodeStart \/ FixCodeStep \/ FixCodeReturn
NextAnalyzer == ParserAddsDefinition \/ ParserFails \/ AnalyzeCode
NextComplexity == ParserAddsControlFlow \/ AnalyzeCode

\* BugFixer.fix_code on every text and Issue list within the bounds.
SpecFixer == Init /\ [][NextFixer]_vars
\* CodeAnalyzer.analyze_code on trees of definitions and on parse failures.
SpecAnalyzer == InitAnalyzer /\ [][NextAnalyzer]_vars
\* CodeAnalyzer.analyze_code on trees of control flow.
SpecComplexity == InitAnalyzer /\ [][NextComplexity]_vars

\* ---------------------------------------------------------- claims, fixer
IsInserted(l) == l.orig = 0
IsDefinitionLine(l) == l.kind \in {"def", "class"}

\* The original position of the nearest original line above position p of
\* text s (0 when there is none).
AnchorAbove(s, p) ==
  LET above == {q \in 1..(p - 1) : ~IsInserted(s[q])}
  IN IF above = {} THEN 0
     ELSE s[CHOOSE q \in above : \A r \in above : r <= q].orig

\* Every missing-docstring Issue handed over points at a definition line of
\* the original text.
AnchorsAreDefinitions ==
  \A i \in 1..Len(issues) :
    issues[i].code = "W0002" =>
      /\ issues[i].line \in 1..Len(code)
      /\ IsDefinitionLine(code[issues[i].line])

\* C1: when every W0002 Issue of the batch points at a definition line of the
\* original text, each docstring line in the text fix_code returns follows
\* the line that stood at its Issue's line number in the original text, with
\* nothing but inserted lines in between: the nearest original line above it
\* is its anchor.
C1_PlacedAtOriginalAnchor ==
  (fpc = "returned" /\ AnchorsAreDefinitions) =>
    \A p \in 1..Len(fixed_code) :
      IsInserted(fixed_code[p]) =>
        AnchorAbove(fixed_code, p) = issues[fixed_code[p].by].line

\* C1 witness: a returned text with two docstring lines inserted for two
\* different anchors, so that the first insertion lies above or below the second.
C1_Witness ==
  /\ fpc = "returned"
  /\ AnchorsAreDefinitions
  /\ \E p, q \in 1..Len(fixed_code) :
       /\ IsInserted(fixed_code[p]) /\ IsInserted(fixed_code[q])
       /\ issues[fixed_code[p].by].line # issues[fixed_code[q].by].line

\* C2: the loop of fix_code takes the Issues in non-increasing order of line,
\* Issues of equal line in the order they had in the list passed in, and by
\* the time it returns it has taken each Issue of the list once.
C2_DescendingStableOrder ==
  /\ \A i, j \in 1..Len(processed) :
       i < j =>
         /\ processed[i].line >= processed[j].line
         /\ (processed[i].line = processed[j].line => processed[i].id < processed[j].id)
  /\ \A i \in 1..Len(processed) : issues[processed[i].id] = processed[i]
  /\ fpc = "returned" => Len(processed) = Len(issues)

\* C2 witness: a finished call that took two missing-docstring Issues of the
\* same definition line, both applied, the one passed in first taken first.
C2_Witness ==
  /\ fpc = "returned"
  /\ Len(processed) = 2
  /\ processed[1].line = processed[2].line
  /\ processed[1].line \in 1..Len(code)
  /\ processed[1].code = "W0002" /\ processed[2].code = "W0002"
  /\ Len(fixes_applied) = 2

\* An anchor outside the text: above its last line, or below its first.
OutOfRange(issue, ls) == issue.line > Len(ls) \/ issue.line < 1

\* C3 (as claimed): a turn of the loop for a W0002 Issue whose line is greater
\* than the number of lines or less than 1 leaves lines and fixes_applied as
\* they were.
C3_OutOfRangeSkipped ==
  [][(/\ fpc = "loop"
      /\ Len(processed) < Len(sorted_issues)
      /\ OutOfRange(sorted_issues[Len(processed) + 1], lines))
     => (lines' = lines /\ fixes_applied' = fixes_applied)]_vars

\* C4 (as claimed): fix_code never raises; every call comes to return a text.
C4_NeverRaises == fpc # "raised"

\* ------------------------------------------------------- claims, analyzer
\* The positions in the returned list of the Issues with code c that node n
\* triggered.
IssuesOf(n, c) ==
  {i \in 1..Len(returned_issues) :
     returned_issues[i].code = c /\ returned_issues[i].id = n}

Parsed == apc = "returned" /\ syntax_error = <<>>

DefinitionKinds == {"FunctionDef", "AsyncFunctionDef", "ClassDef"}
FunctionKinds == {"FunctionDef", "AsyncFunctionDef"}

\* C6 (as claimed): every function, async function or class whose first body
\* statement is not a string literal has exactly one W0002 Issue, a warning
\* at the node's line.
C6_OneDocstringIssuePerDefinition ==
  Parsed =>
    \A n \in 2..Len(tree) :
      (tree[n].kind \in DefinitionKinds /\ tree[n].first_stmt = "none") =>
        /\ Cardinality(IssuesOf(n, "W0002")) = 1
        /\ \A i \in IssuesOf(n, "W0002") :
             /\ returned_issues[i].line = Lineno(tree, n)
             /\ returned_issues[i].severity = "warning"

\* A method is a function defined directly in a class body; its receiver is
\* its first declared parameter.
IsMethod(n) == tree[n].parent # 0 /\ tree[tree[n].parent].kind = "ClassDef"
AllParameters(n) == tree[n].posonlyargs \o tree[n].args \o tree[n].kwonlyargs
CheckedParameters(n) ==
  IF IsMethod(n) /\ AllParameters(n) # <<>> THEN Tail(AllParameters(n))
  ELSE AllParameters(n)
Unannotated(params) == {i \in 1..Len(params) : ~params[i].annotated}

\* C7 (as claimed): a function with M unannotated parameters, of any kind and
\* not counting a method's receiver, has exactly M I0001 Issues, and one
\* I0002 Issue exactly when it declares no return type.
C7_AnnotationIssueCount ==
  Parsed =>
    \A n \in 2..Len(tree) :
      tree[n].kind \in FunctionKinds =>
        /\ Cardinality(IssuesOf(n, "I0001"))
             = Cardinality(Unannotated(CheckedParameters(n)))
        /\ Cardinality(IssuesOf(n, "I0002")) = (IF tree[n].returns THEN 0 ELSE 1)

\* Whether an I0001 Issue of node n names parameter a.
Flagged(n, a) ==
  \E i \in IssuesOf(n, "I0001") : returned_issues[i].message = <<"parameter", a>>

\* C8 (as claimed): the first parameter of a method is never flagged, whatever
\* its name; an unannotated parameter named self that is not a method's first
\* parameter is flagged.
C8_ReceiverByPosition ==
  Parsed =>
    \A n \in 2..Len(tree) :
      tree[n].kind = "FunctionDef" =>
        LET params == tree[n].args IN
        /\ (IsMethod(n) /\ params # <<>>) => ~Flagged(n, params[1].arg)
        /\ \A i \in 1..Len(params) :
             (/\ params[i].arg = "self"
              /\ ~params[i].annotated
              /\ ~(IsMethod(n) /\ i = 1)) => Flagged(n, "self")

\* Whether node m lies in the subtree of node n (n itself included).
InSubtree(t, n, m) ==
  LET RECURSIVE Up(_)
      Up(k) == IF k = n THEN TRUE ELSE IF k = 0 THEN FALSE ELSE Up(t[k].parent)
  IN Up(m)

\* The score by the rule: 1, plus 1 for each If, While, For and ExceptHandler
\* node of the subtree, plus operands - 1 for each BoolOp of the subtree,
\* summed over the nodes in the order of the list, whatever their depth.
RuleScore(t, n) ==
  LET RECURSIVE Sum(_)
      Sum(m) ==
        IF m > Len(t) THEN 0
        ELSE (IF ~InSubtree(t, n, m) THEN 0
              ELSE IF t[m].kind \in {"If", "While", "For", "ExceptHandler"} THEN 1
              ELSE IF t[m].kind = "BoolOp" THEN t[m].values - 1
              ELSE 0) + Sum(m + 1)
  IN 1 + Sum(1)

Gain(node) ==
  IF node.kind \in {"If", "While", "For", "ExceptHandler"} THEN 1
  ELSE IF node.kind = "BoolOp" THEN node.values - 1
  ELSE 0

\* Tree t with node m moved below parent p.
Renested(t, m, p) == [t EXCEPT ![m].parent = p]

HasNoDefinition(l) ==
  \/ l.kind = "other"
  \/ l.kind \in {"docdef", "docclass"} /\ l.name \notin {"undef", "subclass"}

\* C13: a turn of the loop for a W0002 Issue whose anchor line holds no def
\* or class leaves lines and fixes_applied as they were, raises nothing and
\* goes on to the next Issue; the call takes every Issue of the batch.
C13_NoMatchSkippedSilently ==
  /\ [](fpc = "returned" => Len(processed) = Len(sorted_issues))
  /\ [][(/\ fpc = "loop"
         /\ Len(processed) < Len(sorted_issues)
         /\ sorted_issues[Len(processed) + 1].code = "W0002"
         /\ sorted_issues[Len(processed) + 1].line \in 1..Len(lines)
         /\ HasNoDefinition(lines[sorted_issues[Len(processed) + 1].line]))
        => (/\ lines' = lines
            /\ fixes_applied' = fixes_applied
            /\ fpc' = "loop"
            /\ Len(processed') = Len(processed) + 1)]_vars

\* C13 witness: a finished call that skipped a W0002 Issue on a line without
\* a definition and then applied the next Issue of the batch.
C13_Witness ==
  /\ fpc = "returned"
  /\ Len(processed) = 2
  /\ processed[1].code = "W0002"
  /\ processed[1].line \in 1..Len(code)
  /\ code[processed[1].line].kind = "other"
  /\ Len(fixes_applied) = 1
  /\ fixes_applied[1].line = processed[2].line
  /\ Len(fixed_code) = Len(code) + 1

\* ------------------------------------------------ application orders (C14)
\* The batch of the example: four missing-docstring Issues, anchors 10, 7, 7
\* and 3, computed from one text of ten lines.
BatchAnchors == <<10, 7, 7, 3>>
BatchIssues ==
  [i \in 1..Len(BatchAnchors) |->
     CodeIssue(BatchAnchors[i], 0, "Missing docstring", "warning", "W0002", i)]
AnchorSet == {BatchAnchors[i] : i \in 1..Len(BatchAnchors)}
TextLength == CHOOSE n \in AnchorSet : \A m \in AnchorSet : m <= n

\* The texts T: a definition on every anchor line, and on every other line
\* either a definition or a line without one.
Texts ==
  {[i \in 1..TextLength |->
      IF i \in AnchorSet
      THEN (IF a[i] = "def" THEN DefLine(0, "f", i) ELSE ClassLine(4, "undef", i))
      ELSE (IF i \in b THEN DefLine(0, "g", i) ELSE OtherLine(i))] :
   a \in [AnchorSet -> {"def", "class"}], b \in SUBSET ((1..TextLength) \ AnchorSet)}

InitOrders ==
  /\ code \in Texts
  /\ issues = BatchIssues
  /\ lines = code
  /\ fpc = "direct"
  /\ sorted_issues = <<>>
  /\ processed = <<>>
  /\ fixes_applied = <<>>
  /\ fixed_code = <<>>
  /\ InitAnalyzerVars

\* fix_code, lines 76-77, taken out of the sorted loop: _add_docstring is
\* applied to the current lines for any Issue of the batch not yet applied.
ApplyEdit ==
  /\ fpc = "direct"
  /\ \E i \in 1..Len(issues) :
       /\ \A k \in 1..Len(processed) : processed[k].id # i
       /\ LET r == AddDocstring(lines, fixes_applied, issues[i])
          IN /\ ~r.exc
             /\ lines' = r.lines
             /\ fixes_applied' = r.fixes
             /\ processed' = Append(processed, issues[i])
  /\ UNCHANGED <<code, issues, fpc, sorted_issues, fixed_code>>
  /\ UNCHANGED <<analyzerVars, callVars, threadVars, entryVars>>

NextOrders == ApplyEdit
SpecOrders == InitOrders /\ [][NextOrders]_vars

RECURSIVE ApplyAll(_, _)
\* The lines after _add_docstring has been applied for each Issue of batch in
\* the order of the sequence.
ApplyAll(ls, batch) ==
  IF batch = <<>> THEN ls
  ELSE ApplyAll(AddDocstring(ls, <<>>, Head(batch)).lines, Tail(batch))

\* What a line reads, apart from where it came from.
Visible(l) == [kind |-> l.kind, indent |-> l.indent, name |-> l.name]
Text(ls) == [p \in 1..Len(ls) |-> Visible(ls[p])]
AppliedOrder == [k \in 1..Len(processed) |-> processed[k].line]

\* Every Issue of the batch has its docstring line in the text, and the nearest
\* line of T above that line is the Issue's anchor.
EveryInsertionAtAnchor ==
  \A i \in 1..Len(issues) :
    \E p \in 1..Len(lines) :
      /\ IsInserted(lines[p])
      /\ lines[p].by = i
      /\ AnchorAbove(lines, p) = issues[i].line

\* C14: once the four edits with anchors 10, 7, 7, 3 have all been applied to
\* T, every insertion follows its anchor line of T exactly when the order of
\* application was 10, 7, 7, 3, and the text obtained reads like the text the
\* descending order gives exactly in that case: every other order gives a
\* different text with an insertion out of place or missing.
C14_DescendingIsOnlyCorrectOrder ==
  (fpc = "direct" /\ Len(processed) = Len(issues)) =>
    /\ EveryInsertionAtAnchor <=> AppliedOrder = BatchAnchors
    /\ Text(lines) = Text(ApplyAll(code, BatchIssues)) <=> AppliedOrder = BatchAnchors

\* C14 witness: the four edits applied in ascending order, 3 first, on a text
\* whose line 6 holds a definition too, so that an edit lands on the wrong line.
C14_Witness ==
  /\ fpc = "direct"
  /\ Len(processed) = Len(issues)
  /\ AppliedOrder = <<3, 7, 7, 10>>
  /\ IsDefinitionLine(code[6])
  /\ ~EveryInsertionAtAnchor

\* ------------------------------------------- calls on one instance (C15-C18)
\* Whole trees the parser may hand over in one step.
SampleTrees ==
  { \* def f(x, y): return x + y
    <<Plain("Module", 0),
      FunctionDef(1, "none", <<>>, <<Arg("x", FALSE), Arg("y", FALSE)>>, <<>>, FALSE)>>,
    \* class A:
    \*     def f(self, x: int) -> int: """text"""
    <<Plain("Module", 0), ClassDef(1, "none"),
      FunctionDef(2, "str", <<>>, <<Arg("self", FALSE), Arg("x", TRUE)>>, <<>>, TRUE)>>,
    \* def f() -> int: """text"""; an if over a condition of ten operands
    <<Plain("Module", 0), FunctionDef(1, "str", <<>>, <<>>, <<>>, TRUE),
      Plain("If", 2), BoolOp(3, ComplexityThreshold)>>,
    \* class A: """text"""
    <<Plain("Module", 0), ClassDef(1, "str")>> }

\* ast.parse gives the tree of one of the sample texts.
ParserGivesSample ==
  /\ apc = "input"
  /\ syntax_error = <<>>
  /\ tree = <<Plain("Module", 0)>>
  /\ tree' \in SampleTrees
  /\ UNCHANGED <<syntax_error, apc, self_issues, returned_issues>>
  /\ UNCHANGED <<fixerVars, callVars, threadVars, entryVars>>

\* The caller, having got the result of a call, turns to the next text.
NewCall ==
  /\ apc = "returned"
  /\ calls < MaxCalls
  /\ apc' = "input"
  /\ tree' = <<Plain("Module", 0)>>
  /\ syntax_error' = <<>>
  /\ UNCHANGED <<self_issues, returned_issues>>
  /\ UNCHANGED <<fixerVars, callVars, threadVars, entryVars>>

\* get_statistics with the branch for info Issues left out.
GetStatisticsResultTwoBuckets(list) ==
  LET RECURSIVE Tally(_, _)
      Tally(i, st) ==
        IF i > Len(list) THEN st
        ELSE IF list[i].severity = "error"
             THEN Tally(i + 1, [st EXCEPT !.errors = @ + 1])
        ELSE IF list[i].severity = "warning"
             THEN Tally(i + 1, [st EXCEPT !.warnings = @ + 1])
        ELSE Tally(i + 1, st)
  IN Tally(1, [total |-> Len(list), errors |-> 0, warnings |-> 0, info |-> 0])

\* CodeAnalyzer.get_statistics(): the dict it returns for self.issues = list.
GetStatisticsResult(list) ==
  LET RECURSIVE Tally(_, _)
      Tally(i, st) ==
        IF i > Len(list) THEN st
        ELSE IF list[i].severity = "error"
             THEN Tally(i + 1, [st EXCEPT !.errors = @ + 1])
        ELSE IF list[i].severity = "warning"
             THEN Tally(i + 1, [st EXCEPT !.warnings = @ + 1])
        ELSE IF list[i].severity = "info"
             THEN Tally(i + 1, [st EXCEPT !.info = @ + 1])
        ELSE Tally(i + 1, st)
  IN Tally(1, [total |-> Len(list), errors |-> 0, warnings |-> 0, info |-> 0])

\* The caller asks for the statistics, before, between or after calls.
GetStatistics ==
  /\ apc \in {"input", "returned"}
  /\ stats' = <<GetStatisticsResult(heap[self_ref])>>
  /\ UNCHANGED <<other_error, heap, self_ref, returned_refs, calls>>
  /\ UNCHANGED <<fixerVars, analyzerVars, threadVars, entryVars>>

NextCalls ==
  \/ ParserGivesSample
  \/ ParserFails
  \/ AnalyzeCode
  \/ NewCall
  \/ GetStatistics
SpecCalls == InitAnalyzer /\ [][NextCalls]_vars

\* The number of Issues of one severity in a collection.
CountOf(list, severity) ==
  Cardinality({i \in 1..Len(list) : list[i].severity = severity})

\* C15: whatever calls went before, the dict get_statistics returns has
\* total = errors + warnings + info, and errors, warnings and info are the
\* numbers of Issues of that severity in the collection it summarizes, the
\* instance's current list.
C15_StatisticsTally ==
  [][GetStatistics =>
       LET st == stats'[1] IN
       /\ st.total = st.errors + st.warnings + st.info
       /\ st.errors = CountOf(heap[self_ref], "error")
       /\ st.warnings = CountOf(heap[self_ref], "warning")
       /\ st.info = CountOf(heap[self_ref], "info")]_vars

\* C15 witness: statistics taken after a second call, over a collection
\* holding both warnings and info Issues.
C15_Witness ==
  /\ calls = MaxCalls
  /\ apc = "returned"
  /\ stats # <<>>
  /\ stats[1].warnings = 1
  /\ stats[1].info = 3
  /\ stats[1].total = Len(self_issues)

\* C16: get_statistics summarizes the collection the most recent call of
\* analyze_code produced for its own text, and gives zeros before any call:
\* the Issues of earlier calls are not counted, also when the most recent call
\* ended in a parse failure.
C16_StatisticsOfMostRecentCall ==
  [][(GetStatistics /\ (calls = 0 \/ apc = "returned")) =>
       LET produced == IF calls = 0 THEN <<>>
                       ELSE AnalyzeCodeResult(tree, syntax_error)
           st == stats'[1]
       IN /\ st.total = Len(produced)
          /\ st.errors = CountOf(produced, "error")
          /\ st.warnings = CountOf(produced, "warning")
          /\ st.info = CountOf(produced, "info")]_vars

\* C16 witness: statistics taken after a second call that ended in a parse
\* failure, the first call having returned warnings and no error.
C16_Witness ==
  /\ calls = MaxCalls
  /\ apc = "returned"
  /\ syntax_error # <<>>
  /\ Len(returned_refs) = MaxCalls
  /\ CountOf(heap[returned_refs[1]], "warning") > 0
  /\ CountOf(heap[returned_refs[1]], "error") = 0
  /\ stats = <<[total |-> 1, errors |-> 1, warnings |-> 0, info |-> 0]>>

\* C18: no step of a later call changes a list an earlier call returned: it
\* is not emptied, not extended, and none of its Issues is replaced.
C18_ReturnedListsUntouched ==
  [][\A i \in 1..Len(returned_refs) :
       heap'[returned_refs[i]] = heap[returned_refs[i]]]_vars

\* C18 witness: two calls done, the first having returned Issues, the second
\* having returned another list with other Issues in it.
C18_Witness ==
  /\ Len(returned_refs) = MaxCalls
  /\ returned_refs[1] # returned_refs[2]
  /\ heap[returned_refs[1]] # <<>>
  /\ heap[returned_refs[2]] # <<>>
  /\ heap[returned_refs[2]] # heap[returned_refs[1]]

\* --------------------------------------- two calls on one instance (C17)
\* The Issues the three rules append for node n of tree t (_check_ast, lines
\* 111-114, for one node of the walk).
CheckNode(t, n) ==
  CheckFunctionComplexity(t, n) \o CheckMissingDocstrings(t, n)
    \o CheckMissingTypeHints(t, n)

\* Thread th enters analyze_code: self.issues = [] on the shared instance,
\* then ast.parse gives the thread its own tree.
ThreadEnters(th) ==
  /\ tpc[th] = "idle"
  /\ LET r == ResetIssues(heap, self_ref)
     IN /\ heap' = r.heap
        /\ self_ref' = r.ref
  /\ \E t \in SampleTrees : ttree' = [ttree EXCEPT ![th] = t]
  /\ tpos' = [tpos EXCEPT ![th] = 1]
  /\ tpc' = [tpc EXCEPT ![th] = "walk"]
  /\ UNCHANGED <<tret, other_error, returned_refs, calls, stats>>
  /\ UNCHANGED <<fixerVars, analyzerVars, entryVars>>

\* Thread th visits the next node of its walk; what the rules find goes to
\* whatever list self.issues is bound to at that moment.
ThreadVisits(th) ==
  /\ tpc[th] = "walk"
  /\ tpos[th] <= Len(Walk(ttree[th], 1))
  /\ heap' = [heap EXCEPT ![self_ref] = @ \o CheckNode(ttree[th], Walk(ttree[th], 1)[tpos[th]])]
  /\ tpos' = [tpos EXCEPT ![th] = @ + 1]
  /\ UNCHANGED <<tpc, ttree, tret, other_error, self_ref, returned_refs, calls, stats>>
  /\ UNCHANGED <<fixerVars, analyzerVars, entryVars>>

\* Thread th leaves analyze_code: return self.issues.
ThreadReturns(th) ==
  /\ tpc[th] = "walk"
  /\ tpos[th] > Len(Walk(ttree[th], 1))
  /\ tret' = [tret EXCEPT ![th] = self_ref]
  /\ tpc' = [tpc EXCEPT ![th] = "returned"]
  /\ UNCHANGED <<ttree, tpos, other_error, heap, self_ref, returned_refs, calls, stats>>
  /\ UNCHANGED <<fixerVars, analyzerVars, entryVars>>

Enter == \E th \in Threads : ThreadEnters(th)
Visit == \E th \in Threads : ThreadVisits(th)
Return == \E th \in Threads : ThreadReturns(th)
NextInterleaved == Enter \/ Visit \/ Return
SpecInterleaved == InitAnalyzer /\ [][NextInterleaved]_vars

\* C17: with two calls of analyze_code on one instance interleaved, the list
\* each call returns holds the Issues of that call's own text, no more and no
\* fewer.
C17_EachCallReturnsItsOwnIssues ==
  \A th \in Threads :
    tpc[th] = "returned" => heap[tret[th]] = CheckAst(ttree[th])

\* ------------------------------------------- every outcome of the parser (C19)
\* What ast.parse raises besides SyntaxError: RecursionError for an
\* expression nested too deep for the parser ("1+" * 100000 + "1"),
\* MemoryError for "-" * 200000 + "1".
OtherErrors == {"RecursionError", "MemoryError"}

\* ast.parse raises an exception that is not a SyntaxError.
ParserRaisesOther ==
  /\ apc = "input"
  /\ syntax_error = <<>>
  /\ other_error = <<>>
  /\ \E e \in OtherErrors : other_error' = <<e>>
  /\ UNCHANGED <<heap, self_ref, returned_refs, calls, stats>>
  /\ UNCHANGED <<fixerVars, analyzerVars, threadVars, entryVars>>

NextOutcomes ==
  \/ ParserGivesSample
  \/ ParserFails
  \/ ParserRaisesOther
  \/ AnalyzeCode
  \/ NewCall
SpecOutcomes == InitAnalyzer /\ [][NextOutcomes]_vars

\* C19: analyze_code never ends by raising an exception to its caller.
C19_NeverPropagates == apc # "raised"

\* ------------------------------------------------- claims, positions (C20)
RuleCodes == {"W0001", "W0002", "I0001", "I0002"}

Failed ==
  /\ apc = "returned"
  /\ syntax_error # <<>>
  /\ Len(returned_issues) = 1
  /\ returned_issues[1].severity = "error"
IssuesReady ==
  /\ apc = "returned"
  /\ syntax_error = <<>>
  /\ \A i \in 1..Len(returned_issues) : returned_issues[i].severity # "error"

\* C21: a call of analyze_code that has ended has ended as Failed, its
\* collection being one error Issue, or as IssuesReady, its text having parsed
\* and its collection holding no error Issue.
C21_FailedOrIssuesReady ==
  apc # "input" => (Failed \/ IssuesReady)

\* ------------------------------------------------ claims, walk order (C22)
WalkPosition(t, n) ==
  LET w == Walk(t, 1) IN CHOOSE k \in 1..Len(w) : w[k] = n
RuleRank(c) ==
  CASE c = "W0001" -> 1 [] c = "W0002" -> 2 [] c = "I0001" -> 3 [] c = "I0002" -> 4
ParameterPosition(node, name) ==
  CHOOSE k \in 1..Len(node.args) : node.args[k].arg = name
IssuesOfNode(list, n) ==
  LET RECURSIVE Pick(_)
      Pick(i) == IF i > Len(list) THEN <<>>
                 ELSE IF list[i].id = n THEN <<list[i]>> \o Pick(i + 1) ELSE Pick(i + 1)
  IN Pick(1)

WalkFramesRecursive(t, n) == 1 + Depth(t, n)

\* The interpreter frames ast.walk holds when it is at node n: it is one
\* generator that keeps the nodes to visit in a deque, whatever their depth.
WalkFrames(t, n) == 1

NestChoices(parent) ==
  { FunctionDef(parent, "none", <<>>, <<Arg("x", FALSE)>>, <<>>, FALSE),
    ClassDef(parent, "none"),
    Plain("If", parent) }

\* ast.parse gives a tree with one more node, nested anywhere.
ParserNests ==
  /\ apc = "input"
  /\ Len(tree) <= MaxNodes
  /\ \E parent \in 1..Len(tree) :
       \E node \in NestChoices(parent) : tree' = Append(tree, node)
  /\ UNCHANGED <<syntax_error, apc, self_issues, returned_issues>>
  /\ UNCHANGED <<fixerVars, callVars, threadVars, entryVars>>

\* analyze_code, lines 87-91 up to the first node: self.issues = [], the
\* text has parsed, ast.walk puts the tree in its deque.
WalkStart ==
  /\ apc = "input"
  /\ LET r == ResetIssues(heap, self_ref)
     IN /\ heap' = r.heap
        /\ self_ref' = r.ref
        /\ self_issues' = r.heap[r.ref]
  /\ deque' = <<1>>
  /\ apc' = "walking"
  /\ calls' = calls + 1
  /\ UNCHANGED <<tree, syntax_error, returned_issues, other_error, returned_refs, stats>>
  /\ UNCHANGED <<fixerVars, threadVars, fileVars, ctorVars, lengthVars, summaryVars>>

\* _check_ast, lines 110-114, one turn: ast.walk takes the node at the left
\* of its deque, puts the node's children at the right, and the three rules
\* run on the node. The interpreter raises RecursionError if the frames
\* needed exceed its limit.
WalkStep ==
  /\ apc = "walking"
  /\ deque # <<>>
  /\ LET node == Head(deque) IN
     IF WalkFrames(tree, node) > RecursionLimit
     THEN /\ apc' = "raised"
          /\ UNCHANGED <<deque, heap, self_issues>>
     ELSE /\ deque' = Tail(deque) \o Children(tree, node)
          /\ heap' = [heap EXCEPT ![self_ref] = @ \o CheckNode(tree, node)]
          /\ self_issues' = heap'[self_ref]
          /\ apc' = apc
  /\ UNCHANGED <<tree, syntax_error, returned_issues, other_error, self_ref,
                 returned_refs, calls, stats>>
  /\ UNCHANGED <<fixerVars, threadVars, fileVars, ctorVars, lengthVars, summaryVars>>

\* The deque is empty: _check_ast ends and analyze_code returns self.issues.
WalkDone ==
  /\ apc = "walking"
  /\ deque = <<>>
  /\ apc' = "returned"
  /\ returned_issues' = self_issues
  /\ returned_refs' = Append(returned_refs, self_ref)
  /\ UNCHANGED <<tree, syntax_error, self_issues, other_error, heap, self_ref, calls, stats>>
  /\ UNCHANGED <<fixerVars, threadVars, entryVars>>

NextWalk == ParserNests \/ WalkStart \/ WalkStep \/ WalkDone
\* The interpreter goes on executing a call that has begun.
SpecWalk ==
  InitAnalyzer /\ [][NextWalk]_vars /\ WF_vars(WalkStep) /\ WF_vars(WalkDone)

\* C23: a walk that has begun on a tree ends with the collection returned
\* (IssuesReady), and at no node, however deep, does it fail for want of
\* interpreter frames.
C23_WalkCompletes ==
  /\ [](apc # "raised")
  /\ (apc = "walking") ~> (apc = "returned" /\ returned_issues = CheckAst(tree))

\* C23 witness: the walk has returned for a tree nested deeper than the
\* recursion limit.
C23_Witness ==
  /\ apc = "returned"
  /\ deque = <<>>
  /\ \E n \in 1..Len(tree) :
       /\ Depth(tree, n) > RecursionLimit
       /\ IssuesOfNode(returned_issues, n) # <<>>

\* ------------------------------------------- file-scoped entry points (C24)
\* The trees of the texts the files may hold.
FileTrees ==
  { \* def f(x, y): return x + y
    <<Plain("Module", 0),
      FunctionDef(1, "none", <<>>, <<Arg("x", FALSE), Arg("y", FALSE)>>, <<>>, FALSE)>>,
    \* class A:
    \*     def f(self, x: int) -> int: """text"""
    <<Plain("Module", 0), ClassDef(1, "none"),
      FunctionDef(2, "str", <<>>, <<Arg("self", FALSE), Arg("x", TRUE)>>, <<>>, TRUE)>> }

\* The text of a tree, one node to the line, as its lines.
TextOf(t) ==
  LET pre == Preorder(t, 1) IN
  [k \in 1..(Len(t) - 1) |->
     LET n == pre[k + 1] IN
     IF t[n].kind \in {"FunctionDef", "AsyncFunctionDef"}
     THEN DefLine(ColOffset(t, n), t[n].name, k)
     ELSE IF t[n].kind = "ClassDef" THEN ClassLine(ColOffset(t, n), t[n].name, k)
     ELSE OtherLine(k)]

\* ast.parse for the text of one of these files.
ParseText(text) == CHOOSE t \in FileTrees : TextOf(t) = text
IsFileText(text) == \E t \in FileTrees : TextOf(t) = text

\* path.exists()
Exists(fsv, p) == fsv[p] # <<>>

\* The outcome with the missing path turned into a normal return.
NotFoundSwallowed(op, p) == <<[op |-> op, path |-> p, result |-> "returned"]>>

\* raise FileNotFoundError(...): what the caller gets.
NotFound(op, p) == <<[op |-> op, path |-> p, result |-> "FileNotFoundError"]>>
Returned(op, p) == <<[op |-> op, path |-> p, result |-> "returned"]>>

RECURSIVE FixCodeLoop(_, _, _)
\* fix_code, lines 74-79, run to its end over the sorted Issues.
\* exc is TRUE when a turn raised, which ends the loop and the call.
FixCodeLoop(ls, fixes, todo) ==
  IF todo = <<>> THEN [exc |-> FALSE, lines |-> ls, fixes |-> fixes]
  ELSE LET r == FixOne(ls, fixes, Head(todo))
       IN IF r.exc THEN r ELSE FixCodeLoop(r.lines, r.fixes, Tail(todo))

\* fix_code(code, issues) on an instance whose fixes_applied is fixes: the
\* lines joined at line 81 and fixes_applied after the call.
FixCodeResult(fixes, ls, iss) == FixCodeLoop(ls, ResetFixes(fixes), Sorted(iss))

\* Somebody writes one of the texts to a path, or removes the file.
WriteFile(p) ==
  /\ \E t \in FileTrees : fs' = [fs EXCEPT ![p] = <<TextOf(t)>>]
  /\ UNCHANGED <<fout, fixerVars, analyzerVars, callVars, threadVars,
                 walkVars, ctorVars, lengthVars, summaryVars>>
RemoveFile(p) ==
  /\ Exists(fs, p)
  /\ fs' = [fs EXCEPT ![p] = <<>>]
  /\ UNCHANGED <<fout, fixerVars, analyzerVars, callVars, threadVars,
                 walkVars, ctorVars, lengthVars, summaryVars>>

\* CodeAnalyzer.analyze_file(p), on the analyzer the BugFixer holds.
AnalyzeFile(p) ==
  /\ IF ~Exists(fs, p)
     THEN /\ fout' = NotFound("analyze_file", p)
          /\ UNCHANGED <<analyzerVars, callVars>>
     ELSE /\ IsFileText(fs[p][1])
          /\ calls < MaxCalls
          /\ LET t == ParseText(fs[p][1])
                 r == ResetIssues(heap, self_ref)
                 h == [r.heap EXCEPT ![r.ref] = @ \o AnalyzeCodeResult(t, <<>>)]
             IN /\ tree' = t
                /\ heap' = h
                /\ self_ref' = r.ref
                /\ self_issues' = h[r.ref]
                /\ returned_issues' = h[r.ref]
                /\ returned_refs' = Append(returned_refs, r.ref)
          /\ syntax_error' = <<>>
          /\ apc' = "returned"
          /\ calls' = calls + 1
          /\ fout' = Returned("analyze_file", p)
          /\ UNCHANGED <<other_error, stats>>
  /\ UNCHANGED <<fs, fixerVars, threadVars, walkVars, ctorVars, lengthVars, summaryVars>>

\* BugFixer.fix_file(p, issues) with issues None (given = FALSE: the file is
\* analyzed first) or the empty list.
FixFile(p) ==
  /\ IF ~Exists(fs, p)
     THEN /\ fout' = NotFound("fix_file", p)
          /\ UNCHANGED <<fs, fixes_applied, analyzerVars, callVars>>
     ELSE /\ IsFileText(fs[p][1])
          /\ \E given \in BOOLEAN :
               IF given
               THEN /\ LET f == FixCodeResult(fixes_applied, fs[p][1], <<>>)
                       IN /\ fixes_applied' = f.fixes
                          /\ fs' = [fs EXCEPT ![p] = <<f.lines>>]
                    /\ UNCHANGED <<analyzerVars, callVars>>
               ELSE /\ calls < MaxCalls
                    /\ LET t == ParseText(fs[p][1])
                           r == ResetIssues(heap, self_ref)
                           h == [r.heap EXCEPT ![r.ref] = @ \o AnalyzeCodeResult(t, <<>>)]
                           f == FixCodeResult(fixes_applied, fs[p][1], h[r.ref])
                       IN /\ tree' = t
                          /\ heap' = h
                          /\ self_ref' = r.ref
                          /\ self_issues' = h[r.ref]
                          /\ returned_issues' = h[r.ref]
                          /\ returned_refs' = Append(returned_refs, r.ref)
                          /\ fixes_applied' = f.fixes
                          /\ fs' = [fs EXCEPT ![p] = <<f.lines>>]
                    /\ syntax_error' = <<>>
                    /\ apc' = "returned"
                    /\ calls' = calls + 1
                    /\ UNCHANGED <<other_error, stats>>
          /\ fout' = Returned("fix_file", p)
  /\ UNCHANGED <<code, issues, fpc, lines, sorted_issues, processed, fixed_code>>
  /\ UNCHANGED <<threadVars, walkVars, ctorVars, lengthVars, summaryVars>>

\* TestGenerator.generate_tests(p): the test text is returned, nothing kept.
GenerateTests(p) ==
  /\ IF ~Exists(fs, p)
     THEN fout' = NotFound("generate_tests", p)
     ELSE fout' = Returned("generate_tests", p)
  /\ UNCHANGED <<fs, fixerVars, analyzerVars, callVars, threadVars,
                 walkVars, ctorVars, lengthVars, summaryVars>>

NextFiles ==
  \E p \in Paths :
    \/ WriteFile(p)
    \/ RemoveFile(p)
    \/ AnalyzeFile(p)
    \/ FixFile(p)
    \/ GenerateTests(p)
SpecFiles == InitAnalyzer /\ [][NextFiles]_vars

\* C24: analyze_file, fix_file and generate_tests called with a path that
\* does not exist end in FileNotFoundError for the caller, and the call has
\* analyzed nothing, fixed nothing and written no file.
C24_MissingPathRaises ==
  [][\A p \in Paths :
       (~Exists(fs, p) /\ (AnalyzeFile(p) \/ FixFile(p) \/ GenerateTests(p))) =>
         /\ fout'[1].result = "FileNotFoundError"
         /\ fout'[1].path = p
         /\ fs' = fs
         /\ UNCHANGED <<heap, self_ref, self_issues, returned_refs, calls, fixes_applied>>]_vars

\* C24 witness: fix_file has just raised for a missing path, after an earlier
\* fix_file analyzed and rewrote the file at the other path.
C24_Witness ==
  /\ fout = NotFound("fix_file", "b.py")
  /\ ~Exists(fs, "b.py")
  /\ Exists(fs, "a.py")
  /\ ~IsFileText(fs["a.py"][1])
  /\ fixes_applied # <<>>
  /\ calls > 0

\* ------------------------------------------------------- constructors (C25)
Components == {"DocstringGenerator", "TestGenerator"}
\* The selectors a caller may pass; "None" stands for the value None.
Selectors ==
  {"google", "numpy", "Google", "sphinx", "pytest", "unittest", "PyTest", "nose", "None"}

\* str.lower()
Lower(s) ==
  IF s = "Google" THEN "google" ELSE IF s = "PyTest" THEN "pytest" ELSE s

\* The lists of __init__: ['google', 'numpy'] and ['pytest', 'unittest'].
Supported(component) ==
  IF component = "DocstringGenerator" THEN {"google", "numpy"} ELSE {"pytest", "unittest"}

\* __init__ without the check of the selector.
InitOutcomeUnchecked(component, selector) ==
  IF selector = "None" THEN "AttributeError" ELSE "constructed"

\* __init__(self, style) and __init__(self, test_framework): how it ends.
\* None has no lower(), which raises AttributeError in the first statement.
InitOutcome(component, selector) ==
  IF selector = "None" THEN "AttributeError"
  ELSE IF Lower(selector) \notin Supported(component) THEN "ValueError"
  ELSE "constructed"

\* A caller constructs a component; it obtains the instance only when
\* __init__ has returned.
Construct ==
  /\ \E component \in Components, selector \in Selectors :
       LET outcome == InitOutcome(component, selector) IN
       /\ outcome = "constructed" => Len(instances) < MaxInstances
       /\ cout' = <<[component |-> component, selector |-> selector, result |-> outcome]>>
       /\ instances' =
            IF outcome = "constructed"
            THEN Append(instances, [component |-> component, selector |-> Lower(selector)])
            ELSE instances
  /\ UNCHANGED <<fixerVars, analyzerVars, callVars, threadVars,
                 walkVars, fileVars, lengthVars, summaryVars>>

\* The caller lets go of the instance obtained first.
Discard ==
  /\ instances # <<>>
  /\ instances' = Tail(instances)
  /\ UNCHANGED <<cout, fixerVars, analyzerVars, callVars, threadVars,
                 walkVars, fileVars, lengthVars, summaryVars>>

NextConstruct == Construct \/ Discard
SpecConstruct == InitAnalyzer /\ [][NextConstruct]_vars

\* The selector, case apart, is one the component knows.
IsSupportedSelector(component, selector) ==
  \/ component = "DocstringGenerator" /\ selector \in {"google", "Google", "numpy"}
  \/ component = "TestGenerator" /\ selector \in {"pytest", "PyTest", "unittest"}

\* C25: a constructor called with a selector the component does not support
\* ends in an exception and gives no instance, so every instance obtained has
\* google or numpy for its style, pytest or unittest for its framework.
C25_UnsupportedSelectorFailsFast ==
  /\ \A i \in 1..Len(instances) :
       IsSupportedSelector(instances[i].component, instances[i].selector)
  /\ cout # <<>> =>
       (cout[1].result = "constructed"
          <=> IsSupportedSelector(cout[1].component, cout[1].selector))

\* C25 witness: a constructor has just raised ValueError for a selector the
\* other component supports, one instance having been obtained before.
C25_Witness ==
  /\ cout # <<>>
  /\ cout[1] = [component |-> "TestGenerator", selector |-> "google", result |-> "ValueError"]
  /\ Len(instances) = 1

\* The pairing of code with rule and severity.
RuleOfCode(c) ==
  CASE c = "E0001" -> "syntax"
    [] c = "W0001" -> "complexity"
    [] c = "W0002" -> "docstring"
    [] c = "I0001" -> "parameter"
    [] c = "I0002" -> "return"
SeverityOfCode(c) ==
  CASE c = "E0001" -> "error"
    [] c \in {"W0001", "W0002"} -> "warning"
    [] c \in {"I0001", "I0002"} -> "info"

\* C26: in every collection analyze_code has returned, each Issue has one of
\* the five codes, was made by the one rule of that code and has the one
\* severity of that code: E0001 error, W0001 and W0002 warning, I0001 and
\* I0002 info.
C26_CodeDeterminesRuleAndSeverity ==
  \A k \in 1..Len(returned_refs) :
    \A i \in 1..Len(heap[returned_refs[k]]) :
      LET issue == heap[returned_refs[k]][i] IN
      /\ issue.code \in {"E0001", "W0001", "W0002", "I0001", "I0002"}
      /\ issue.message[1] = RuleOfCode(issue.code)
      /\ issue.severity = SeverityOfCode(issue.code)

\* C26 witness: two collections returned, one the error Issue of a parse
\* failure, the other the complexity warning of a function.
C26_Witness ==
  /\ Len(returned_refs) = 2
  /\ \E i \in 1..Len(heap[returned_refs[1]]) : heap[returned_refs[1]][i].code = "E0001"
  /\ \E i \in 1..Len(heap[returned_refs[2]]) : heap[returned_refs[2]][i].code = "W0001"

\* ------------------------------------------------ claims, docstrings (C27)
\* The first statement of the body is a string literal, empty or not.
HasLeadingString(node) == node.first_stmt \in {"str", "blank"}

\* C27: a function or class whose body begins with a string literal, be it
\* empty or blank, has no missing-docstring Issue in the collection returned.
C27_LeadingStringIsDocstring ==
  (apc = "returned" /\ syntax_error = <<>>) =>
    \A n \in 1..Len(tree) :
      (tree[n].kind \in {"FunctionDef", "AsyncFunctionDef", "ClassDef"}
         /\ HasLeadingString(tree[n])) =>
        \A i \in 1..Len(returned_issues) :
          ~(returned_issues[i].code = "W0002" /\ returned_issues[i].id = n)

\* ------------------------------------------ fix_code, call after call (C28)
\* The texts: a function on the first line and any line below it.
SummaryTexts == {<<DefLine(0, "f", 1), l>> : l \in LineChoices(2)}

\* The Issues a batch may hold: a missing docstring reported for line 0
\* (which Python's negative index takes for the last line), for a line of the
\* text or for the line past its end, and a missing annotation.
SummaryIssue(k, id) ==
  IF k = 4 THEN CodeIssue(1, 0, "Missing type hint", "info", "I0001", id)
  ELSE CodeIssue(k, 0, "Missing docstring", "warning", "W0002", id)
SummaryBatches ==
  {<<>>} \cup {<<SummaryIssue(a, 1)>> : a \in 0..4}
         \cup {<<SummaryIssue(a, 1), SummaryIssue(b, 2)>> : a, b \in 0..4}

InitSummary ==
  /\ code \in SummaryTexts
  /\ InitFixerVars
  /\ InitAnalyzerVars

\* BugFixer.fix_code(code, issues), a whole call; lines, sorted_issues and
\* processed are locals of the call and not kept.
FixCodeCall ==
  /\ calls < MaxCalls
  /\ \E batch \in SummaryBatches :
       LET f == FixCodeResult(fixes_applied, code, batch) IN
       /\ issues' = batch
       /\ fixes_applied' = f.fixes
       /\ fpc' = IF f.exc THEN "raised" ELSE "returned"
       /\ fixed_code' = IF f.exc THEN fixed_code ELSE f.lines
  /\ calls' = calls + 1
  /\ UNCHANGED <<code, lines, sorted_issues, processed>>
  /\ UNCHANGED <<other_error, heap, self_ref, returned_refs, stats>>
  /\ UNCHANGED <<analyzerVars, threadVars, entryVars>>

\* BugFixer.get_fix_summary()
GetFixSummaryResult(fixes) == [total_fixes |-> Len(fixes), fixes |-> fixes]
GetFixSummary ==
  /\ summary' = <<GetFixSummaryResult(fixes_applied)>>
  /\ UNCHANGED <<fixerVars, analyzerVars, callVars, threadVars,
                 walkVars, fileVars, ctorVars, lengthVars>>

NextSummary == FixCodeCall \/ GetFixSummary
SpecSummary == InitSummary /\ [][NextSummary]_vars

\* Issue i of the batch is eligible: a missing docstring reported for a line
\* of the text that holds a definition.
Eligible(i) ==
  /\ issues[i].code = "W0002"
  /\ issues[i].line \in 1..Len(code)
  /\ IsDefinitionLine(code[issues[i].line])
InsertedFor(i) == {p \in 1..Len(fixed_code) : IsInserted(fixed_code[p]) /\ fixed_code[p].by = i}
InsertedLines == {p \in 1..Len(fixed_code) : IsInserted(fixed_code[p])}
RecordsFor(l) == {k \in 1..Len(fixes_applied) : fixes_applied[k].line = l}

\* C28: when a call of fix_code has returned, each eligible Issue of its
\* batch has exactly one line inserted for it in the text returned, Issues of
\* equal line each their own, and the line has as many records in
\* fixes_applied as it has eligible Issues; the text returned is longer than
\* the text passed in by the number of lines inserted, which is the number of
\* records; and get_fix_summary then gives that number as total_fixes,
\* whatever the calls before had recorded.
C28_OneInsertionOneRecord ==
  /\ [](fpc = "returned" =>
          /\ \A i \in 1..Len(issues) : Eligible(i) => Cardinality(InsertedFor(i)) = 1
          /\ \A l \in 1..Len(code) :
               Cardinality(RecordsFor(l))
                 = Cardinality({i \in 1..Len(issues) : Eligible(i) /\ issues[i].line = l})
          /\ Len(fixed_code) = Len(code) + Cardinality(InsertedLines)
          /\ Len(fixes_applied) = Cardinality(InsertedLines))
  /\ [][(GetFixSummary /\ fpc = "returned") =>
          /\ summary'[1].total_fixes = Cardinality(InsertedLines)
          /\ summary'[1].total_fixes = Len(fixed_code) - Len(code)]_vars

\* C28 witness: the summary taken after a second call whose batch held two
\* eligible Issues of equal line.
C28_Witness ==
  /\ calls = MaxCalls
  /\ fpc = "returned"
  /\ Len(issues) = 2
  /\ Eligible(1) /\ Eligible(2)
  /\ issues[1].line = issues[2].line
  /\ summary # <<>>
  /\ summary[1].total_fixes = 2
  /\ summary[1].fixes = fixes_applied
  /\ Len(fixed_code) = Len(code) + 2

\* ------------------------------------------------ claims, frame (C29)
RECURSIVE WithoutInserted(_)
\* The text with the inserted docstring lines taken out.
WithoutInserted(s) ==
  IF s = <<>> THEN <<>>
  ELSE IF IsInserted(Head(s)) THEN WithoutInserted(Tail(s))
  ELSE <<Head(s)>> \o WithoutInserted(Tail(s))

\* C29: for any text and any list of Issues, the text fix_code returns, with
\* the inserted docstring lines taken out, is the text passed in, line for
\* line: no original line is changed, lost, doubled or moved.
C29_OnlyInserts ==
  fpc = "returned" => WithoutInserted(fixed_code) = code

\* C29 witness: a returned text of two original lines with a docstring line
\* between them and another after the last.
C29_Witness ==
  /\ fpc = "returned"
  /\ Len(code) = 2
  /\ Len(fixed_code) = 4
  /\ IsInserted(fixed_code[2])
  /\ IsInserted(fixed_code[4])

\* ------------------------------------------------------ fix_line_length (C30)
\* A line of n characters, and the four blanks of the continuation.
Chars(n) == [i \in 1..n |-> "x"]
Blanks(n) == [i \in 1..n |-> " "]

\* line[:m] and line[m:]: a negative m counts from the end of the line.
SliceTo(line, m) ==
  LET n == Len(line)
      j == IF m < 0 THEN m + n ELSE m
      k == IF j < 0 THEN 0 ELSE IF j > n THEN n ELSE j
  IN SubSeq(line, 1, k)
SliceFrom(line, m) ==
  LET n == Len(line)
      j == IF m < 0 THEN m + n ELSE m
      k == IF j < 0 THEN 0 ELSE IF j > n THEN n ELSE j
  IN SubSeq(line, k + 1, n)

RECURSIVE FixLineLengthResult(_, _)
\* BugFixer.fix_line_length(code, max_length): the lines joined at line 171.
FixLineLengthResult(ls, m) ==
  IF ls = <<>> THEN <<>>
  ELSE LET line == Head(ls) IN
       (IF Len(line) <= m THEN <<line>>
        ELSE <<SliceTo(line, m), Blanks(IndentUnit) \o SliceFrom(line, m)>>)
       \o FixLineLengthResult(Tail(ls), m)

\* The texts of one or two lines and the values of max_length.
LengthTexts ==
  {<<Chars(a)>> : a \in 0..MaxLineLen}
    \cup {<<Chars(a), Chars(b)>> : a, b \in 0..MaxLineLen}

InitLineLength ==
  /\ code \in LengthTexts
  /\ InitFixerVars
  /\ InitAnalyzerVars

\* The caller settles on a max_length.
ChooseMaxLength ==
  /\ fpc = "idle"
  /\ max_length = 0
  /\ \E m \in (0 - 1)..MaxMaxLength : m # 0 /\ max_length' = m
  /\ UNCHANGED <<fixerVars, analyzerVars, callVars, threadVars,
                 walkVars, fileVars, ctorVars, summaryVars>>

\* BugFixer.fix_line_length(code, max_length)
FixLineLength ==
  /\ fpc = "idle"
  /\ fixed_code' = FixLineLengthResult(code, max_length)
  /\ fpc' = "returned"
  /\ UNCHANGED <<code, issues, lines, sorted_issues, processed, fixes_applied>>
  /\ UNCHANGED <<analyzerVars, callVars, threadVars, entryVars>>

NextLineLength == ChooseMaxLength \/ FixLineLength
SpecLineLength == InitLineLength /\ [][NextLineLength]_vars

\* C30: no line of the text fix_line_length returns is longer than max_length.
C30_NoLineOverMaxLength ==
  fpc = "returned" =>
    \A p \in 1..Len(fixed_code) : Len(fixed_code[p]) <= max_length

=============================================================================
